---- MODULE Spec2Model ----
(***************************************************************************)
(* A model of DatasetAnalyzer (src/dataset_analysis_multithreaded.py) and  *)
(* of the resume entry point (src/run_analysis_example.py): the retrying   *)
(* API call, the per-item processor run by a bounded worker pool, the      *)
(* batch loop of analyze_dataset with its per-batch file and checkpoint,   *)
(* and a process that can be interrupted and resumed from the checkpoint.  *)
(*                                                                         *)
(* Four specifications share the definitions that model the code:          *)
(*   Spec         the driver with its workers, disk and resume;            *)
(*   SpecCall     call_api_with_retry alone, on a given sequence of        *)
(*                per-attempt API outcomes;                                *)
(*   SpecSummary  generate_summary alone, on a given list of results;      *)
(*   SpecExtract  the JSON extraction of call_api_with_retry alone, on a   *)
(*                given response text.                                     *)
(***************************************************************************)
EXTENDS Integers, Sequences, FiniteSets, TLC

(* ------------------------------ bounds ------------------------------- *)
MaxRows == 3
MaxBatch == 2
MaxRetries == 2
MaxWorkers == 2
MaxRuns == 2
MaxFaults == 1
MaxCallRetries == 3

VARIABLES
    (* configuration of the analyzer and the dataset *)
    R,                  \* len(df): number of rows of the dataset
    B,                  \* batch_size
    max_retries,        \* self.max_retries
    max_workers,        \* self.max_workers
    (* the running process *)
    run,                \* number of the process (1 = first run, then resumes)
    pc,                 \* position of the driver in analyze_dataset
    start_from_batch,   \* argument of analyze_dataset
    batch_num,          \* loop variable of the batch loop
    tasks,              \* futures of the current batch: row index -> task
    batch_results,      \* results list of process_batch, in completion order
    all_results,        \* accumulator of analyze_dataset
    missing_columns,    \* whether a required column is missing from df
    existing_results,   \* what load_existing_results returned
    completed_count,    \* self.completed_count
    failed_items,       \* self.failed_items
    ret,                \* how analyze_dataset ended
    lockHeld,           \* the threads inside `with self.lock`
    (* the disk *)
    itemFiles,          \* batch_<b>_item_<i>.json files: set of <<b, i>>
    batchFiles,         \* batch_<b>_results.json files: b -> list of results
    checkpoint,         \* checkpoint.json
    finalFile,          \* final_analysis_results.json
    (* history *)
    okRows,             \* rows whose latest processing returned a result
    submitted,          \* row -> times submitted to the pool in this run
    ckptLog,            \* checkpoint writes attempted in this run
    batchWriteFailed,   \* batches whose results file write failed in this run
    allValid,           \* every LLM response of this run parsed to an object
    faults,             \* persistence failures injected so far
    itemLog,            \* per-item file paths written in this run, in order
    rewritten,          \* per-item file paths written over an existing file
    finishedRows,       \* rows whose processing has finished, in any run
    (* call_api_with_retry on its own (SpecCall) *)
    c_in,               \* the API outcome of each attempt
    c_mr,               \* max_retries of the call
    c_st,               \* state of the retry loop
    c_sleeps,           \* the sleep after each attempt (0: none)
    (* generate_summary on its own (SpecSummary) *)
    s_results,          \* the results argument
    s_pos,              \* results consumed by the loop so far
    s_freq,             \* keyword_frequency, in insertion order
    s_top,              \* top_keywords of the returned summary
    s_pc,               \* position in generate_summary
    (* the JSON extraction of call_api_with_retry on its own (SpecExtract) *)
    x_text,             \* content: the text of the response
    x_json,             \* json_content: the part handed to json.loads
    x_value,            \* what json.loads gave
    x_pc                \* position in the extraction

dvars == <<R, B, max_retries, max_workers, run, pc, start_from_batch, batch_num,
           tasks, batch_results, all_results, existing_results, completed_count,
           failed_items, ret, lockHeld, missing_columns, itemFiles, batchFiles, checkpoint, finalFile,
           okRows, submitted, ckptLog, batchWriteFailed, allValid, faults,
           itemLog, rewritten, finishedRows>>
cvars == <<c_in, c_mr, c_st, c_sleeps>>
svars == <<s_results, s_pos, s_freq, s_top, s_pc>>
evars == <<x_text, x_json, x_value, x_pc>>
pvars == <<cvars, svars, evars>>
vars == <<dvars, pvars>>

(* ------------------------- the API collaborator ---------------------- *)
(* What one call of client.chat.completions.create followed by the JSON  *)
(* extraction can yield:                                                 *)
(*   raise   the client (or reading the response) raises;                *)
(*   bad     text whose extracted part is not JSON (JSONDecodeError);    *)
(*   obj     text that parses to a non-empty JSON object;                *)
(*   falsy   text that parses to a falsy JSON value other than null      *)
(*           ({}, [], 0, "", false);                                     *)
(*   jnull   the text null: json.loads returns None;                     *)
(*   nonmap  text that parses to a truthy value that is no object        *)
(*           (a non-empty list, a number, a string, true).               *)
Outcomes == {"raise", "bad", "obj", "falsy", "jnull", "nonmap"}
Parsed == {"obj", "falsy", "jnull", "nonmap"}

(* --------------------- call_api_with_retry --------------------------- *)
(* The state of the retry loop: attempt is the loop variable, calls the  *)
(* number of client calls made, result "pending" until a return, and     *)
(* carries the number (from 1) of the attempt whose response text or     *)
(* exception message the returned value holds.                           *)
CallEnter(mr) ==
    [attempt |-> 0, calls |-> 0,
     result |-> IF mr = 0 THEN "null" ELSE "pending", carries |-> 0]

(* `return result` on what json.loads returned: None for the text null *)
Returned(o) == IF o = "jnull" THEN "null" ELSE o

CallStepNoStop(c, o, mr) ==
    IF c.attempt = mr - 1
    THEN [c EXCEPT !.calls = @ + 1, !.carries = c.attempt + 1,
                   !.result = IF o \in Parsed THEN Returned(o)
                              ELSE IF o = "bad" THEN "err_parse"
                              ELSE "err_transport"]
    ELSE [c EXCEPT !.calls = @ + 1, !.attempt = @ + 1]

(* a fallback that is built one attempt too late: the loop ends first *)
CallStepLateFallback(c, o, mr) ==
    IF o \in Parsed
    THEN [c EXCEPT !.calls = @ + 1, !.result = Returned(o),
                   !.carries = c.attempt + 1]
    ELSE IF c.attempt < mr - 1
         THEN [c EXCEPT !.calls = @ + 1, !.attempt = @ + 1]
         ELSE IF o = "bad"
              THEN [c EXCEPT !.calls = @ + 1, !.result = "null"]
              ELSE [c EXCEPT !.calls = @ + 1, !.result = "err_transport",
                             !.carries = c.attempt + 1]

(* One iteration of the for loop on API outcome o. *)
CallStep(c, o, mr) ==
    IF o \in Parsed
    THEN [c EXCEPT !.calls = @ + 1, !.result = Returned(o),
                   !.carries = c.attempt + 1]
    ELSE IF o = "bad"
         THEN IF c.attempt = mr - 1
              THEN [c EXCEPT !.calls = @ + 1, !.result = "err_parse",
                             !.carries = c.attempt + 1]
              ELSE [c EXCEPT !.calls = @ + 1, !.attempt = @ + 1]
         ELSE IF c.attempt < mr - 1
              THEN [c EXCEPT !.calls = @ + 1, !.attempt = @ + 1]
              ELSE [c EXCEPT !.calls = @ + 1, !.result = "err_transport",
                             !.carries = c.attempt + 1]

(* time.sleep(2 ** attempt), in the handler of `except Exception` only; *)
(* 0 stands for no sleep                                                 *)
BackoffEveryFailure(c, o, mr) ==
    IF o \notin Parsed /\ c.attempt < mr - 1 THEN 2 ^ c.attempt ELSE 0

Backoff(c, o, mr) ==
    IF o = "raise" /\ c.attempt < mr - 1 THEN 2 ^ c.attempt ELSE 0

(* ----------------------- process_single_item ------------------------- *)
TruthyNoError(res) == res = "obj"

(* `if result:` *)
Truthy(res) == res \in {"obj", "err_parse", "err_transport", "nonmap"}

(* result['original_data'] = ... succeeds on a dict, raises otherwise *)
IsDict(res) == res \in {"obj", "err_parse", "err_transport"}

Result(i, res) == [index |-> i, kind |-> res]
(* a record that names the batch where the row belongs *)
FailureRecordSwapped(b, i) == [batch_id |-> i, index |-> b]

FailureRecord(b, i) == [batch_id |-> b, index |-> i]

(* --------------------------- partitioning ---------------------------- *)
TotalBatchesFloor(n, bs) == n \div bs

TotalBatches(n, bs) == (n + bs - 1) \div bs

Min(a, b) == IF a < b THEN a ELSE b
StartIdx(b, bs) == b * bs
EndIdx(b, bs, n) == Min((b + 1) * bs, n)
BatchRows(b, bs, n) == StartIdx(b, bs) .. (EndIdx(b, bs, n) - 1)

(* ------------------------------ the disk ----------------------------- *)
NoCheckpoint ==
    [exists |-> FALSE, last_completed_batch |-> -1, total_completed |-> 0,
     failed_items |-> <<>>]
NoFinal ==
    [exists |-> FALSE, summary |-> "none", detailed_results |-> <<>>,
     failed_items |-> <<>>, total_processed |-> 0, total_failed |-> 0]

CheckpointRecordNextBatch(b, results, failed) ==
    [exists |-> TRUE, last_completed_batch |-> b + 1,
     total_completed |-> Len(results), failed_items |-> failed]

CheckpointRecordSwapped(b, results, failed) ==
    [exists |-> TRUE, last_completed_batch |-> Len(results),
     total_completed |-> b, failed_items |-> failed]

CheckpointRecord(b, results, failed) ==
    [exists |-> TRUE, last_completed_batch |-> b,
     total_completed |-> Len(results), failed_items |-> failed]

(* generate_summary: {"error": ...} on no results, the summary otherwise *)
SummaryKind(results) == IF results = <<>> THEN "error" ELSE "summary"

FinalResults(results, failed) ==
    [exists |-> TRUE, summary |-> SummaryKind(results),
     detailed_results |-> results, failed_items |-> failed,
     total_processed |-> Len(results), total_failed |-> Len(failed)]

RECURSIVE ConcatFiles(_, _)
ConcatFiles(files, ids) ==
    IF ids = {} THEN <<>>
    ELSE LET b == CHOOSE x \in ids : \A y \in ids : x <= y
         IN files[b] \o ConcatFiles(files, ids \ {b})

(* load_existing_results: every *_results.json of the output directory *)
LoadExistingResults == ConcatFiles(batchFiles, DOMAIN batchFiles)

Indices(results) == {results[k].index : k \in DOMAIN results}


(* ---------------------------- the tasks ------------------------------ *)
(* A future of the pool: queued, in the retry loop ("call"), past it     *)
(* ("post": the rest of process_single_item is to run), with its per-item *)
(* file handled ("saved"), inside `with self.lock` ("locked"), or done.  *)
(* local is the value of completed_count that `+= 1` has read.           *)
Queued ==
    [st |-> "queued",
     c |-> [attempt |-> 0, calls |-> 0, result |-> "pending", carries |-> 0],
     local |-> 0]
IsRunning(t) == t.st \in {"call", "post", "saved", "locked"}
NumRunning == Cardinality({i \in DOMAIN tasks : IsRunning(tasks[i])})
(* a pool that is left as soon as every future has been started *)
AllDoneStarted == \A i \in DOMAIN tasks : tasks[i].st # "queued"

(* the with-block of the executor and as_completed: every future resolved *)
AllDone == \A i \in DOMAIN tasks : tasks[i].st = "done"

(* The state a process starts from: DatasetAnalyzer.__init__ *)
FreshMemory ==
    /\ tasks' = <<>>
    /\ batch_results' = <<>>
    /\ all_results' = <<>>
    /\ existing_results' = <<>>
    /\ completed_count' = 0
    /\ failed_items' = <<>>
    /\ ret' = "none"
    /\ lockHeld' = {}
    /\ missing_columns' = FALSE
    /\ submitted' = [i \in 0 .. R - 1 |-> 0]
    /\ ckptLog' = <<>>
    /\ batchWriteFailed' = {}
    /\ allValid' = TRUE
    /\ itemLog' = <<>>

(* the variables of the other specifications, where they are not used *)
CallIdle == c_in = <<>> /\ c_mr = 0 /\ c_st = CallEnter(0) /\ c_sleeps = <<>>
SummaryIdle ==
    /\ s_results = <<>> /\ s_pos = 0 /\ s_freq = <<>> /\ s_top = <<>>
    /\ s_pc = "IDLE"
ExtractIdle == x_text = <<>> /\ x_json = <<>> /\ x_value = "none" /\ x_pc = "IDLE"

disk == <<itemFiles, batchFiles, checkpoint, finalFile>>
config == <<R, B, max_retries, max_workers>>
mem == <<missing_columns>>
locks == <<lockHeld>>
wlog == <<itemLog, rewritten>>

Init ==
    /\ R \in 0 .. MaxRows
    /\ B \in 1 .. MaxBatch
    /\ max_retries \in 0 .. MaxRetries
    /\ max_workers \in 1 .. MaxWorkers
    /\ run = 1
    /\ pc = "LOADING"
    /\ start_from_batch = 0
    /\ batch_num = 0
    /\ tasks = <<>>
    /\ batch_results = <<>>
    /\ all_results = <<>>
    /\ existing_results = <<>>
    /\ completed_count = 0
    /\ failed_items = <<>>
    /\ ret = "none"
    /\ lockHeld = {}
    /\ missing_columns = FALSE
    /\ itemFiles = {}
    /\ batchFiles = <<>>
    /\ checkpoint = NoCheckpoint
    /\ finalFile = NoFinal
    /\ okRows = {}
    /\ submitted = [i \in 0 .. R - 1 |-> 0]
    /\ ckptLog = <<>>
    /\ batchWriteFailed = {}
    /\ allValid = TRUE
    /\ faults = 0
    /\ itemLog = <<>>
    /\ rewritten = {}
    /\ finishedRows = {}
    /\ CallIdle
    /\ SummaryIdle
    /\ ExtractIdle

(* ------------------------- analyze_dataset --------------------------- *)
(* pd.read_parquet: on an exception the driver returns {"error": ...} *)
LoadFails ==
    /\ pc = "LOADING"
    /\ pc' = "FAILED"
    /\ ret' = "error"
    /\ UNCHANGED <<config, mem, locks, run, start_from_batch, batch_num, tasks, batch_results,
                   all_results, existing_results, completed_count, failed_items,
                   disk, okRows, submitted, ckptLog, batchWriteFailed, allValid,
                   faults, wlog,
                   finishedRows, pvars>>

(* the file is read; df.columns holds the required columns or not *)
LoadOk ==
    /\ pc = "LOADING"
    /\ pc' = "VALIDATING"
    /\ \E m \in BOOLEAN : missing_columns' = m
    /\ UNCHANGED <<config, locks, run, start_from_batch, batch_num, tasks, batch_results,
                   all_results, existing_results, completed_count, failed_items,
                   ret, disk, okRows, submitted, ckptLog, batchWriteFailed,
                   allValid, faults, wlog,
                   finishedRows, pvars>>

AfterValidationNoReturn(missing, start) ==
    IF start > 0 THEN "RESUMING" ELSE "BATCH_LOOP"

(* `if missing_columns: return {"error": ...}`, then                     *)
(* `if start_from_batch > 0:` the existing results are loaded            *)
AfterValidation(missing, start) ==
    IF missing THEN "FAILED"
    ELSE IF start > 0 THEN "RESUMING" ELSE "BATCH_LOOP"

Validate ==
    /\ pc = "VALIDATING"
    /\ pc' = AfterValidation(missing_columns, start_from_batch)
    /\ ret' = IF pc' = "FAILED" THEN "error" ELSE ret
    /\ UNCHANGED <<config, mem, locks, run, start_from_batch, batch_num, tasks,
                   batch_results, all_results, existing_results, completed_count,
                   failed_items, disk, okRows, submitted, ckptLog,
                   batchWriteFailed, allValid, faults, wlog,
                   finishedRows, pvars>>

(* start_from_batch > 0: existing_results = self.load_existing_results(); *)
(* then all_results = [] whatever was loaded                              *)
AccumulatorAfterResume(loaded) == <<>>

ResumeLoad ==
    /\ pc = "RESUMING"
    /\ existing_results' = LoadExistingResults
    /\ all_results' = AccumulatorAfterResume(LoadExistingResults)
    /\ pc' = "BATCH_LOOP"
    /\ UNCHANGED <<config, mem, locks, run, start_from_batch, batch_num, tasks, batch_results,
                   completed_count, failed_items, ret, disk, okRows, submitted,
                   ckptLog, batchWriteFailed, allValid, faults, wlog,
                   finishedRows, pvars>>

(* for batch_num in range(start_from_batch, total_batches): slice the rows *)
(* and submit one process_single_item per row to a new pool                *)
LoopNext ==
    /\ pc = "BATCH_LOOP"
    /\ batch_num < TotalBatches(R, B)
    /\ tasks' = [i \in BatchRows(batch_num, B, R) |-> Queued]
    /\ submitted' = [i \in 0 .. R - 1 |->
                        IF i \in BatchRows(batch_num, B, R)
                        THEN submitted[i] + 1 ELSE submitted[i]]
    /\ batch_results' = <<>>
    /\ pc' = "BATCH_RUN"
    /\ UNCHANGED <<config, mem, locks, run, start_from_batch, batch_num, all_results,
                   existing_results, completed_count, failed_items, ret, disk,
                   okRows, ckptLog, batchWriteFailed, allValid, faults, wlog,
                   finishedRows, pvars>>

LoopExit ==
    /\ pc = "BATCH_LOOP"
    /\ ~(batch_num < TotalBatches(R, B))
    /\ pc' = "SUMMARIZING"
    /\ UNCHANGED <<config, mem, locks, run, start_from_batch, batch_num, tasks, batch_results,
                   all_results, existing_results, completed_count, failed_items,
                   ret, disk, okRows, submitted, ckptLog, batchWriteFailed,
                   allValid, faults, wlog,
                   finishedRows, pvars>>

(* ------------------------ the worker threads ------------------------- *)
(* A free worker takes the oldest queued future; process_single_item     *)
(* builds the prompt and enters call_api_with_retry.                     *)
Begin(i) ==
    /\ pc = "BATCH_RUN"
    /\ tasks[i].st = "queued"
    /\ \A j \in DOMAIN tasks : tasks[j].st = "queued" => i <= j
    /\ NumRunning < max_workers
    /\ LET c == CallEnter(max_retries)
       IN tasks' = [tasks EXCEPT ![i] =
                       [st |-> IF c.result = "pending" THEN "call" ELSE "post",
                        c |-> c, local |-> 0]]
    /\ UNCHANGED <<config, mem, locks, run, pc, start_from_batch, batch_num, batch_results,
                   all_results, existing_results, completed_count, failed_items,
                   ret, disk, okRows, submitted, ckptLog, batchWriteFailed,
                   allValid, faults, wlog,
                   finishedRows, pvars>>

(* One iteration of the retry loop: one client call and its outcome. *)
Attempt(i) ==
    /\ pc = "BATCH_RUN"
    /\ tasks[i].st = "call"
    /\ \E o \in Outcomes :
          LET c == CallStep(tasks[i].c, o, max_retries)
          IN /\ tasks' = [tasks EXCEPT ![i] =
                             [st |-> IF c.result = "pending" THEN "call" ELSE "post",
                              c |-> c, local |-> 0]]
             /\ allValid' = (allValid /\ o = "obj")
    /\ UNCHANGED <<config, mem, locks, run, pc, start_from_batch, batch_num, batch_results,
                   all_results, existing_results, completed_count, failed_items,
                   ret, disk, okRows, submitted, ckptLog, batchWriteFailed,
                   faults, wlog,
                   finishedRows, pvars>>

(* `if result:` with a dict: original_data is attached and the per-item  *)
(* file written; a failure of the write is logged only.                  *)
SaveItem(i) ==
    /\ pc = "BATCH_RUN"
    /\ tasks[i].st = "post"
    /\ Truthy(tasks[i].c.result)
    /\ IsDict(tasks[i].c.result)
    /\ \/ /\ itemFiles' = itemFiles \cup {<<batch_num, i>>}
          /\ itemLog' = Append(itemLog, <<batch_num, i>>)
          /\ rewritten' = IF <<batch_num, i>> \in itemFiles
                            THEN rewritten \cup {<<batch_num, i>>}
                            ELSE rewritten
          /\ faults' = faults
       \/ /\ faults < MaxFaults
          /\ faults' = faults + 1
          /\ UNCHANGED <<itemFiles, wlog>>
    /\ tasks' = [tasks EXCEPT ![i].st = "saved"]
    /\ UNCHANGED <<config, mem, locks, run, pc, start_from_batch, batch_num,
                   batch_results, all_results, existing_results, completed_count,
                   failed_items, ret, batchFiles, checkpoint, finalFile, okRows,
                   submitted, ckptLog, batchWriteFailed, allValid, finishedRows, pvars>>

(* a lock that does not exclude *)
LockFreeAlways(held) == TRUE

(* a lock that is never handed over *)
LockFreeNever(held) == FALSE

(* threading.Lock: acquired only when no thread holds it *)
LockFree(held) == held = {}

(* `with self.lock:` is entered, after the per-item file of a dict, or   *)
(* in the except clause after the item assignment on a truthy value that *)
(* is no dict raised; `self.completed_count += 1` reads the counter.     *)
Acquire(i) ==
    /\ pc = "BATCH_RUN"
    /\ \/ tasks[i].st = "saved"
       \/ /\ tasks[i].st = "post"
          /\ Truthy(tasks[i].c.result)
          /\ ~IsDict(tasks[i].c.result)
    /\ LockFree(lockHeld)
    /\ lockHeld' = lockHeld \cup {i}
    /\ tasks' = [tasks EXCEPT ![i].st = "locked",
                              ![i].local = IF tasks[i].st = "saved"
                                           THEN completed_count ELSE 0]
    /\ UNCHANGED <<config, mem, run, pc, start_from_batch, batch_num, batch_results,
                   all_results, existing_results, completed_count, failed_items,
                   ret, disk, okRows, submitted, ckptLog, batchWriteFailed,
                   allValid, faults, wlog, finishedRows, pvars>>

(* the counter is stored, the lock released, the result returned and     *)
(* collected by as_completed                                             *)
FinishResult(i) ==
    /\ pc = "BATCH_RUN"
    /\ tasks[i].st = "locked"
    /\ IsDict(tasks[i].c.result)
    /\ completed_count' = tasks[i].local + 1
    /\ lockHeld' = lockHeld \ {i}
    /\ batch_results' = Append(batch_results, Result(i, tasks[i].c.result))
    /\ okRows' = okRows \cup {i}
    /\ finishedRows' = finishedRows \cup {i}
    /\ tasks' = [tasks EXCEPT ![i].st = "done", ![i].local = 0]
    /\ UNCHANGED <<config, mem, run, pc, start_from_batch, batch_num, all_results,
                   existing_results, failed_items, ret, disk, submitted, ckptLog,
                   batchWriteFailed, allValid, faults, wlog, pvars>>

(* the except clause appends a failure record under the lock and None   *)
(* is returned                                                           *)
FinishRaise(i) ==
    /\ pc = "BATCH_RUN"
    /\ tasks[i].st = "locked"
    /\ ~IsDict(tasks[i].c.result)
    /\ failed_items' = Append(failed_items, FailureRecord(batch_num, i))
    /\ lockHeld' = lockHeld \ {i}
    /\ okRows' = okRows \ {i}
    /\ finishedRows' = finishedRows \cup {i}
    /\ tasks' = [tasks EXCEPT ![i].st = "done"]
    /\ UNCHANGED <<config, mem, run, pc, start_from_batch, batch_num, batch_results,
                   all_results, existing_results, completed_count, ret, disk,
                   submitted, ckptLog, batchWriteFailed, allValid, faults, wlog,
                   pvars>>

(* a falsy result (None, or a falsy JSON value): None is returned *)
FinishNull(i) ==
    /\ pc = "BATCH_RUN"
    /\ tasks[i].st = "post"
    /\ ~Truthy(tasks[i].c.result)
    /\ okRows' = okRows \ {i}
    /\ finishedRows' = finishedRows \cup {i}
    /\ tasks' = [tasks EXCEPT ![i].st = "done"]
    /\ UNCHANGED <<config, mem, locks, run, pc, start_from_batch, batch_num, batch_results,
                   all_results, existing_results, completed_count, failed_items,
                   ret, disk, submitted, ckptLog, batchWriteFailed, allValid,
                   faults, wlog,
                   pvars>>

(* ---------------- the batch loop after process_batch ----------------- *)
WithFileSingle(files, b, content) == [x \in {b} |-> content]

(* open(filename, 'w') + json.dump: the directory with one more file *)
WithFile(files, b, content) ==
    [x \in DOMAIN files \cup {b} |-> IF x = b THEN content ELSE files[x]]

(* `if batch_results:` guards save_batch_results and the extend *)
SavesBatch(results) == results # <<>>

(* The pool is drained and process_batch returns an empty list: nothing  *)
(* is saved, the accumulator is unchanged.                               *)
BatchEmpty ==
    /\ pc = "BATCH_RUN"
    /\ AllDone
    /\ ~SavesBatch(batch_results)
    /\ tasks' = <<>>
    /\ pc' = "CHECKPOINT"
    /\ UNCHANGED <<config, mem, locks, run, start_from_batch, batch_num, batch_results,
                   all_results, existing_results, completed_count, failed_items,
                   ret, disk, okRows, submitted, ckptLog, batchWriteFailed,
                   allValid, faults, wlog,
                   finishedRows, pvars>>

(* The pool is drained and process_batch returns results:                *)
(* save_batch_results writes batch_<b>_results.json (a failure is logged *)
(* only), then all_results.extend(batch_results).                        *)
BatchSave ==
    /\ pc = "BATCH_RUN"
    /\ AllDone
    /\ SavesBatch(batch_results)
    /\ \/ /\ batchFiles' = WithFile(batchFiles, batch_num, batch_results)
          /\ UNCHANGED <<faults, batchWriteFailed>>
       \/ /\ faults < MaxFaults
          /\ faults' = faults + 1
          /\ batchWriteFailed' = batchWriteFailed \cup {batch_num}
          /\ batchFiles' = batchFiles
    /\ all_results' = all_results \o batch_results
    /\ tasks' = <<>>
    /\ pc' = "CHECKPOINT"
    /\ UNCHANGED <<config, mem, locks, run, start_from_batch, batch_num, batch_results,
                   existing_results, completed_count, failed_items, ret,
                   itemFiles, checkpoint, finalFile, okRows, submitted, ckptLog,
                   allValid, wlog,
                   finishedRows, pvars>>

(* checkpoint.json is overwritten; the loop goes on with the next batch *)
CheckpointWrite ==
    /\ pc = "CHECKPOINT"
    /\ checkpoint' = CheckpointRecord(batch_num, all_results, failed_items)
    /\ ckptLog' = Append(ckptLog, [last |-> checkpoint'.last_completed_batch,
                                    ok |-> TRUE])
    /\ batch_num' = batch_num + 1
    /\ pc' = "BATCH_LOOP"
    /\ UNCHANGED <<config, mem, locks, run, start_from_batch, tasks, batch_results,
                   all_results, existing_results, completed_count, failed_items,
                   ret, itemFiles, batchFiles, finalFile, okRows, submitted,
                   batchWriteFailed, allValid, faults, wlog,
                   finishedRows, pvars>>

(* open() of checkpoint.json raises: nothing catches it in analyze_dataset, *)
(* the exception leaves the driver                                          *)
CheckpointFails ==
    /\ pc = "CHECKPOINT"
    /\ faults < MaxFaults
    /\ faults' = faults + 1
    /\ ckptLog' = Append(ckptLog,
           [last |-> CheckpointRecord(batch_num, all_results,
                                      failed_items).last_completed_batch,
            ok |-> FALSE])
    /\ pc' = "ABORTED"
    /\ ret' = "raised_checkpoint"
    /\ UNCHANGED <<config, mem, locks, run, start_from_batch, batch_num, tasks, batch_results,
                   all_results, existing_results, completed_count, failed_items,
                   disk, okRows, submitted, batchWriteFailed, allValid, wlog,
                   finishedRows, pvars>>

(* summary = self.generate_summary(all_results) *)
Summarize ==
    /\ pc = "SUMMARIZING"
    /\ pc' = "FINAL_WRITE"
    /\ UNCHANGED <<config, mem, locks, run, start_from_batch, batch_num, tasks, batch_results,
                   all_results, existing_results, completed_count, failed_items,
                   ret, disk, okRows, submitted, ckptLog, batchWriteFailed,
                   allValid, faults, wlog,
                   finishedRows, pvars>>

(* final_analysis_results.json is written and final_results returned *)
FinalWrite ==
    /\ pc = "FINAL_WRITE"
    /\ finalFile' = FinalResults(all_results, failed_items)
    /\ pc' = "DONE"
    /\ ret' = "final"
    /\ UNCHANGED <<config, mem, locks, run, start_from_batch, batch_num, tasks, batch_results,
                   all_results, existing_results, completed_count, failed_items,
                   itemFiles, batchFiles, checkpoint, okRows, submitted, ckptLog,
                   batchWriteFailed, allValid, faults, wlog,
                   finishedRows, pvars>>

(* open() of the final results file raises: it leaves the driver too *)
FinalWriteFails ==
    /\ pc = "FINAL_WRITE"
    /\ faults < MaxFaults
    /\ faults' = faults + 1
    /\ pc' = "ABORTED"
    /\ ret' = "raised_final"
    /\ UNCHANGED <<config, mem, locks, run, start_from_batch, batch_num, tasks, batch_results,
                   all_results, existing_results, completed_count, failed_items,
                   disk, okRows, submitted, ckptLog, batchWriteFailed, allValid,
                   wlog,
                   finishedRows, pvars>>

(* ----------------------- interruption and resume --------------------- *)
Active == {"LOADING", "VALIDATING", "RESUMING", "BATCH_LOOP", "BATCH_RUN",
           "CHECKPOINT", "SUMMARIZING", "FINAL_WRITE"}
Stopped == {"DONE", "FAILED", "ABORTED", "INTERRUPTED"}

(* The process is interrupted (KeyboardInterrupt, kill): its memory is   *)
(* gone, the disk stays as it is.                                        *)
Interrupt ==
    /\ pc \in Active
    /\ pc' = "INTERRUPTED"
    /\ batch_num' = 0
    /\ FreshMemory
    /\ UNCHANGED <<config, run, start_from_batch, disk, okRows, faults, rewritten, finishedRows, pvars>>

(* a resume that starts at the checkpointed batch itself *)
ResumePointSame(last) == last

(* resume_analysis: START_FROM_BATCH = last_completed_batch + 1 *)
ResumePoint(last) == last + 1

(* resume_analysis with a checkpoint file: main() runs a new analyzer *)
Resume ==
    /\ pc \in Stopped
    /\ run < MaxRuns
    /\ checkpoint.exists
    /\ run' = run + 1
    /\ start_from_batch' = ResumePoint(checkpoint.last_completed_batch)
    /\ batch_num' = ResumePoint(checkpoint.last_completed_batch)
    /\ pc' = "LOADING"
    /\ FreshMemory
    /\ UNCHANGED <<config, disk, okRows, faults, rewritten, finishedRows, pvars>>

(* resume_analysis without a checkpoint file: "cannot resume" *)
ResumeNoCheckpoint ==
    /\ pc \in Stopped
    /\ run < MaxRuns
    /\ ~checkpoint.exists
    /\ run' = run + 1
    /\ pc' = "NO_CHECKPOINT"
    /\ batch_num' = 0
    /\ FreshMemory
    /\ UNCHANGED <<config, start_from_batch, disk, okRows, faults, rewritten, finishedRows, pvars>>

Next ==
    \/ LoadFails
    \/ LoadOk
    \/ Validate
    \/ ResumeLoad
    \/ LoopNext
    \/ LoopExit
    \/ \E i \in DOMAIN tasks : Begin(i)
    \/ \E i \in DOMAIN tasks : Attempt(i)
    \/ \E i \in DOMAIN tasks : SaveItem(i)
    \/ \E i \in DOMAIN tasks : Acquire(i)
    \/ \E i \in DOMAIN tasks : FinishResult(i)
    \/ \E i \in DOMAIN tasks : FinishRaise(i)
    \/ \E i \in DOMAIN tasks : FinishNull(i)
    \/ BatchEmpty
    \/ BatchSave
    \/ CheckpointWrite
    \/ CheckpointFails
    \/ Summarize
    \/ FinalWrite
    \/ FinalWriteFails
    \/ Interrupt
    \/ Resume
    \/ ResumeNoCheckpoint

Spec == Init /\ [][Next]_vars

(* The steps of the running process: the main thread executes its next  *)
(* statement, the pool runs a submitted future on a free worker, a      *)
(* client call returns or raises, a released lock is taken. A process   *)
(* that is not interrupted keeps taking them.                           *)
RunStep ==
    \/ LoadFails
    \/ LoadOk
    \/ Validate
    \/ ResumeLoad
    \/ LoopNext
    \/ LoopExit
    \/ \E i \in DOMAIN tasks : Begin(i)
    \/ \E i \in DOMAIN tasks : Attempt(i)
    \/ \E i \in DOMAIN tasks : SaveItem(i)
    \/ \E i \in DOMAIN tasks : Acquire(i)
    \/ \E i \in DOMAIN tasks : FinishResult(i)
    \/ \E i \in DOMAIN tasks : FinishRaise(i)
    \/ \E i \in DOMAIN tasks : FinishNull(i)
    \/ BatchEmpty
    \/ BatchSave
    \/ CheckpointWrite
    \/ CheckpointFails
    \/ Summarize
    \/ FinalWrite
    \/ FinalWriteFails

SpecLive == Init /\ [][Next]_vars /\ WF_vars(RunStep)

(* ------------------ call_api_with_retry on its own ------------------- *)
(* The call on a given sequence of API outcomes, one per attempt. *)
DriverIdle(at) ==
    /\ R = 0 /\ B = 1 /\ max_retries = 0 /\ max_workers = 1
    /\ run = 1 /\ pc = at /\ start_from_batch = 0 /\ batch_num = 0
    /\ tasks = <<>> /\ batch_results = <<>> /\ all_results = <<>>
    /\ existing_results = <<>> /\ completed_count = 0 /\ failed_items = <<>>
    /\ ret = "none" /\ lockHeld = {} /\ missing_columns = FALSE
    /\ itemFiles = {} /\ batchFiles = <<>>
    /\ checkpoint = NoCheckpoint /\ finalFile = NoFinal
    /\ okRows = {} /\ submitted = <<>> /\ ckptLog = <<>>
    /\ batchWriteFailed = {} /\ allValid = TRUE /\ faults = 0
    /\ itemLog = <<>> /\ rewritten = {} /\ finishedRows = {}

InitCall ==
    /\ c_in \in [1 .. MaxCallRetries -> Outcomes]
    /\ c_mr \in 0 .. MaxCallRetries
    /\ c_st = CallEnter(c_mr)
    /\ c_sleeps = <<>>
    /\ DriverIdle("CALL_ONLY")
    /\ SummaryIdle
    /\ ExtractIdle

CallAttempt ==
    /\ pc = "CALL_ONLY"
    /\ c_st.result = "pending"
    /\ c_st' = CallStep(c_st, c_in[c_st.attempt + 1], c_mr)
    /\ c_sleeps' = Append(c_sleeps, Backoff(c_st, c_in[c_st.attempt + 1], c_mr))
    /\ UNCHANGED <<dvars, c_in, c_mr, svars, evars>>

NextCall == CallAttempt

SpecCall == InitCall /\ [][NextCall]_vars

(* -------------------- generate_summary on its own -------------------- *)
(* A result carries whether it has an 'error' key and its list of       *)
(* supporting_keywords; keywords are numbers. keyword_frequency is a    *)
(* dict: a sequence of entries [k, n] in insertion order.               *)
MaxResults == 2
TopN == 20

UpTo(n) == [k \in 1 .. n |-> k]
SomeKeywords == {1, TopN + 1}
KeywordLists ==
    {<<>>} \cup {<<a>> : a \in SomeKeywords}
           \cup {<<a, b>> : a \in SomeKeywords, b \in SomeKeywords}
           \cup {UpTo(TopN + 1), Append(UpTo(TopN + 1), TopN + 1)}
ResultsIn ==
    UNION {[1 .. n -> [error : BOOLEAN, keywords : KeywordLists]] :
             n \in 0 .. MaxResults}

(* a loop that counts the keywords of every result *)
CountedAll(r) == TRUE

(* `if 'error' not in result` *)
Counted(r) == ~r.error

Keys(freq) == {freq[j].k : j \in DOMAIN freq}

(* keyword_frequency[keyword] = keyword_frequency.get(keyword, 0) + 1 *)
Increment(freq, kw) ==
    IF kw \in Keys(freq)
    THEN [j \in DOMAIN freq |->
            IF freq[j].k = kw THEN [k |-> kw, n |-> freq[j].n + 1] ELSE freq[j]]
    ELSE Append(freq, [k |-> kw, n |-> 1])

(* for keyword in keywords: ... *)
RECURSIVE CountKeywords(_, _)
CountKeywords(freq, kws) ==
    IF kws = <<>> THEN freq
    ELSE CountKeywords(Increment(freq, Head(kws)), Tail(kws))

(* an order in which a later item overtakes the items it ties with *)
OvertakesTies(e, x) == e.n >= x.n

(* sorted(..., key=lambda x: x[1], reverse=True) is stable: an item     *)
(* moves in front of exactly the items of a smaller count               *)
Overtakes(e, x) == e.n > x.n

InsertDesc(sorted, e) ==
    LET ahead == {j \in DOMAIN sorted : ~Overtakes(e, sorted[j])}
        m == Cardinality(ahead)
    IN  SubSeq(sorted, 1, m) \o <<e>> \o SubSeq(sorted, m + 1, Len(sorted))

RECURSIVE SortedDesc(_, _)
SortedDesc(sorted, items) ==
    IF items = <<>> THEN sorted
    ELSE SortedDesc(InsertDesc(sorted, Head(items)), Tail(items))

(* dict(sorted(...)[:20]) *)
TopKeywords(freq) ==
    LET all == SortedDesc(<<>>, freq)
    IN  SubSeq(all, 1, Min(TopN, Len(all)))

InitSummary ==
    /\ s_results \in ResultsIn
    /\ s_pos = 0 /\ s_freq = <<>> /\ s_top = <<>>
    /\ s_pc = "ENTER"
    /\ DriverIdle("SUMMARY_ONLY")
    /\ CallIdle
    /\ ExtractIdle

(* `if not results: return {"error": ...}` *)
SummaryEmpty ==
    /\ s_pc = "ENTER"
    /\ s_results = <<>>
    /\ s_pc' = "NO_RESULTS"
    /\ UNCHANGED <<dvars, cvars, evars, s_results, s_pos, s_freq, s_top>>

(* one iteration of `for result in results` *)
SummaryCount ==
    /\ s_pc \in {"ENTER", "COUNT"}
    /\ s_pos < Len(s_results)
    /\ s_pos' = s_pos + 1
    /\ s_freq' = IF Counted(s_results[s_pos + 1])
                  THEN CountKeywords(s_freq, s_results[s_pos + 1].keywords)
                  ELSE s_freq
    /\ s_pc' = "COUNT"
    /\ UNCHANGED <<dvars, cvars, evars, s_results, s_top>>

(* the summary is built and returned *)
SummaryReturn ==
    /\ s_pc = "COUNT"
    /\ s_pos = Len(s_results)
    /\ s_top' = TopKeywords(s_freq)
    /\ s_pc' = "RETURNED"
    /\ UNCHANGED <<dvars, cvars, evars, s_results, s_pos, s_freq>>

NextSummary ==
    \/ SummaryEmpty
    \/ SummaryCount
    \/ SummaryReturn

SpecSummary == InitSummary /\ [][NextSummary]_vars

(* ----------------- the JSON extraction on its own -------------------- *)
(* The response text is a sequence of characters; an opening fence      *)
(* ```json and a bare fence ``` each stand as one element:               *)
(*   "F" ```json   "T" ```   "{"   "}"   "1" a digit   "x" a letter      *)
(*   " " white space.                                                    *)
(* Positions are counted from 0 as in Python, in elements.               *)
MaxText == 5
Chars == {"F", "T", "{", "}", "1", "x", " "}
Texts == UNION {[1 .. n -> Chars] : n \in 0 .. MaxText}

(* sub in content *)
Contains(t, sub) == \E j \in DOMAIN t : t[j] \in sub

(* content.find(sub, from): the first position at or after from, or -1;  *)
(* ``` is found at a bare fence and at the head of ```json               *)
Find(t, sub, from) ==
    LET at == {j \in from .. (Len(t) - 1) : t[j + 1] \in sub}
    IN  IF at = {} THEN -1 ELSE CHOOSE j \in at : \A k \in at : j <= k

(* content.rfind(sub) *)
RFind(t, sub) ==
    LET at == {j \in 0 .. (Len(t) - 1) : t[j + 1] \in sub}
    IN  IF at = {} THEN -1 ELSE CHOOSE j \in at : \A k \in at : j >= k

(* content[a:b] with a >= 0; a negative b counts from the end *)
Slice(t, a, b) ==
    LET e == IF b < 0 THEN b + Len(t) ELSE Min(b, Len(t))
    IN  IF a >= e THEN <<>> ELSE SubSeq(t, a + 1, e)

(* str.strip() *)
RECURSIVE Strip(_)
Strip(t) ==
    IF t = <<>> THEN t
    ELSE IF Head(t) = " " THEN Strip(Tail(t))
    ELSE IF t[Len(t)] = " " THEN Strip(SubSeq(t, 1, Len(t) - 1))
    ELSE t

(* the if / elif / else that chooses json_content *)
Extract(t) ==
    IF Contains(t, {"F"})
    THEN LET json_start == Find(t, {"F"}, 0) + 1
             json_end == Find(t, {"T", "F"}, json_start)
         IN  Strip(Slice(t, json_start, json_end))
    ELSE IF Contains(t, {"{"}) /\ Contains(t, {"}"})
         THEN LET json_start == Find(t, {"{"}, 0)
                  json_end == RFind(t, {"}"}) + 1
              IN  Slice(t, json_start, json_end)
         ELSE t

(* json.loads on these characters: digits are a number, braces around   *)
(* white space an (empty) object, white space around a value is         *)
(* skipped; anything else raises JSONDecodeError ("fail")               *)
JsonLoads(t) ==
    LET u == Strip(t)
    IN  IF u # <<>> /\ \A j \in DOMAIN u : u[j] = "1" THEN "number"
        ELSE IF /\ Len(u) >= 2
                /\ u[1] = "{"
                /\ u[Len(u)] = "}"
                /\ \A j \in 2 .. (Len(u) - 1) : u[j] = " "
             THEN "object"
             ELSE "fail"

InitExtract ==
    /\ x_text \in Texts
    /\ x_json = <<>> /\ x_value = "none" /\ x_pc = "CONTENT"
    /\ DriverIdle("EXTRACT_ONLY")
    /\ CallIdle
    /\ SummaryIdle

(* json_content is chosen *)
ExtractStep ==
    /\ x_pc = "CONTENT"
    /\ x_json' = Extract(x_text)
    /\ x_pc' = "EXTRACTED"
    /\ UNCHANGED <<dvars, cvars, svars, x_text, x_value>>

(* result = json.loads(json_content) *)
ParseStep ==
    /\ x_pc = "EXTRACTED"
    /\ x_value' = JsonLoads(x_json)
    /\ x_pc' = "PARSED"
    /\ UNCHANGED <<dvars, cvars, svars, x_text, x_json>>

NextExtract ==
    \/ ExtractStep
    \/ ParseStep

SpecExtract == InitExtract /\ [][NextExtract]_vars

(* ======================= the claims, C1 .. C10 ======================= *)
HasFailure(b, i) ==
    \E k \in DOMAIN failed_items : failed_items[k] = FailureRecord(b, i)
FailedIndices(failed) == {failed[k].index : k \in DOMAIN failed}
Exhausted(t) == t.st = "done" /\ t.c.result \in {"err_parse", "err_transport"}
ReturnedNull(t) == t.st = "done" /\ ~(Truthy(t.c.result) /\ IsDict(t.c.result))
CkptByThisRun == \E k \in DOMAIN ckptLog : ckptLog[k].ok
BatchHasResult(b) ==
    \E k \in DOMAIN all_results : all_results[k].index \in BatchRows(b, B, R)
(* the least k with k * d >= n *)
CeilDiv(n, d) == CHOOSE k \in 0 .. n : k * d >= n /\ \A j \in 0 .. n : j * d >= n => k <= j
AfterLoop == {"SUMMARIZING", "FINAL_WRITE", "DONE"}

(* C1: a run interrupted after batch K was checkpointed and resumed from  *)
(* K+1 ends with the same set of successfully processed row indices in    *)
(* detailed_results as an uninterrupted run, i.e. with every row whose    *)
(* processing returned a result; the results loaded from the batch files  *)
(* during RESUMING are part of what is summarized and written.            *)
C1_ResumeIdempotent ==
    (pc = "DONE" /\ faults = 0) =>
        /\ Indices(finalFile.detailed_results) = okRows
        /\ Indices(existing_results) \subseteq Indices(finalFile.detailed_results)

(* C2: a run from batch 0 iterates exactly ceil(R/B) batches, batch b     *)
(* covers the rows [b*B, min((b+1)*B, R)), and every row index of [0, R)  *)
(* is in exactly one batch.                                               *)
C2_Partition ==
    /\ pc = "BATCH_RUN" =>
          /\ DOMAIN tasks = {i \in 0 .. R - 1 : batch_num * B <= i /\ i < (batch_num + 1) * B}
          /\ DOMAIN tasks # {}
    /\ start_from_batch = 0 => \A i \in 0 .. R - 1 : submitted[i] <= 1
    /\ (start_from_batch = 0 /\ pc \in AfterLoop) =>
          /\ batch_num = CeilDiv(R, B)
          /\ \A i \in 0 .. R - 1 : submitted[i] = 1

C2_Witness ==
    /\ pc = "DONE" /\ start_from_batch = 0 /\ R = 3 /\ B = 2
    /\ batch_num = 2

(* C3 as stated: when the checkpoint written by the run holds             *)
(* last_completed_batch = N-1, every batch < N processed by the run has a *)
(* batch results file on disk, batches without any result included.       *)
C3_Original ==
    (CkptByThisRun /\ batchWriteFailed = {} /\ max_retries >= 1) =>
        \A b \in start_from_batch .. checkpoint.last_completed_batch :
            b \in DOMAIN batchFiles

(* C3 amended: when the checkpoint written by the run holds               *)
(* last_completed_batch = N-1, every batch < N processed by the run in    *)
(* which at least one row produced a result has its batch results file on *)
(* disk, holding the results of its rows, unless writing it failed.       *)
C3_BatchFilesBeforeCheckpoint ==
    CkptByThisRun =>
        \A b \in start_from_batch .. checkpoint.last_completed_batch :
            (BatchHasResult(b) /\ b \notin batchWriteFailed) =>
                /\ b \in DOMAIN batchFiles
                /\ Indices(batchFiles[b]) =
                      Indices(all_results) \cap BatchRows(b, B, R)

C3_Witness ==
    /\ CkptByThisRun
    /\ checkpoint.last_completed_batch = 1
    /\ start_from_batch = 0
    /\ BatchHasResult(0) /\ 0 \in DOMAIN batchFiles
    /\ ~BatchHasResult(1) /\ 1 \notin DOMAIN batchFiles

(* C4 as stated: a failure record is in the failure list for every row    *)
(* whose call exhausted its retries without a parsed result.              *)
C4_Original ==
    \A i \in DOMAIN tasks : Exhausted(tasks[i]) => HasFailure(batch_num, i)

(* C4 amended: a row whose call exhausted its retries gets no failure     *)
(* record: the error-tagged result of the call is kept as the row's       *)
(* result; a failure record is appended exactly for the rows whose        *)
(* processing raised (a truthy parsed value that is no object).           *)
C4_ExhaustedIsResult ==
    \A i \in DOMAIN tasks :
        tasks[i].st = "done" =>
            /\ Exhausted(tasks[i]) =>
                  /\ ~HasFailure(batch_num, i)
                  /\ \E k \in DOMAIN batch_results :
                        batch_results[k] = Result(i, tasks[i].c.result)
            /\ HasFailure(batch_num, i) <=> tasks[i].c.result = "nonmap"

C4_Witness ==
    \E i, j \in DOMAIN tasks :
        /\ Exhausted(tasks[i]) /\ tasks[i].c.result = "err_parse"
        /\ tasks[i].c.calls = 2
        /\ tasks[j].st = "done" /\ tasks[j].c.result = "nonmap"
        /\ HasFailure(batch_num, j)

(* C5: whenever the per-item processor returned null for a row, a failure *)
(* record of that row is in the failure list; after a run from batch 0    *)
(* every row index is in detailed_results or in failed_items.             *)
C5_EveryRowAccounted ==
    /\ \A i \in DOMAIN tasks :
          (max_retries >= 1 /\ ReturnedNull(tasks[i])) => HasFailure(batch_num, i)
    /\ (pc = "DONE" /\ start_from_batch = 0) =>
          \A i \in 0 .. R - 1 :
              \/ i \in Indices(finalFile.detailed_results)
              \/ i \in FailedIndices(finalFile.failed_items)

(* C6: a failure while writing the checkpoint file (as one writing a      *)
(* per-item or a per-batch file) never aborts the run.                    *)
C6_WriteFailureSwallowed ==
    max_retries >= 1 => ~(pc = "ABORTED" /\ ret = "raised_checkpoint")

(* C7: the number of LLM calls of call(prompt, item_id) is the position   *)
(* of the first attempt whose response parses, or max_retries if none of  *)
(* the first max_retries attempts parses; no call follows a parse.        *)
ParsePositions == {k \in 1 .. c_mr : c_in[k] \in Parsed}
ExpectedCalls ==
    IF ParsePositions = {} THEN c_mr
    ELSE CHOOSE k \in ParsePositions : \A j \in ParsePositions : k <= j
C7_CallCount ==
    pc = "CALL_ONLY" =>
        /\ c_st.calls <= ExpectedCalls
        /\ c_st.result # "pending" => c_st.calls = ExpectedCalls

C7_Witness ==
    /\ pc = "CALL_ONLY" /\ c_mr = 2
    /\ c_in[1] = "raise" /\ c_in[2] = "raise"
    /\ c_st.result = "err_transport" /\ c_st.calls = 2

(* C8: what a run from batch 0 ends with when every LLM call returned a   *)
(* valid JSON object (each row having had a call).                        *)
C8_Case ==
    pc = "DONE" /\ start_from_batch = 0 /\ allValid /\ max_retries >= 1
C8_Results ==
    /\ Len(finalFile.detailed_results) = R
    /\ Indices(finalFile.detailed_results) = 0 .. R - 1
    /\ \A k \in DOMAIN finalFile.detailed_results :
          finalFile.detailed_results[k].kind = "obj"
    /\ failed_items = <<>> /\ finalFile.failed_items = <<>>
    /\ finalFile.total_processed = R
C8_Checkpoint ==
    /\ checkpoint.exists
    /\ checkpoint.last_completed_batch = CeilDiv(R, B) - 1
    /\ checkpoint.total_completed = R

(* C8 as stated: R results, no failure record, a final checkpoint with    *)
(* last_completed_batch = ceil(R/B) - 1 and total_completed = R, and      *)
(* metadata.total_processed = R, for every R.                             *)
C8_Original == C8_Case => (C8_Results /\ C8_Checkpoint)

(* C8 amended: R results, no failure record, metadata.total_processed =   *)
(* R; for R >= 1 a final checkpoint with last_completed_batch =           *)
(* ceil(R/B) - 1 and total_completed = R; for R = 0 no checkpoint file.   *)
C8_AllValidRun ==
    C8_Case =>
        /\ C8_Results
        /\ R >= 1 => C8_Checkpoint
        /\ R = 0 => ~checkpoint.exists

C8_Witness ==
    /\ C8_Case /\ R = 3 /\ B = 2
    /\ checkpoint.last_completed_batch = 1 /\ checkpoint.total_completed = 3
    /\ finalFile.total_processed = 3

(* C9: within one run the values of last_completed_batch written to the   *)
(* checkpoint file never decrease, and the checkpoint is written exactly  *)
(* once after every batch the loop processes, naming that batch; only a   *)
(* write that raises, which ends the run, leaves the file as it was.      *)
C9_CheckpointMonotonic ==
    /\ \A k \in 1 .. Len(ckptLog) - 1 : ckptLog[k].last <= ckptLog[k + 1].last
    /\ \A k \in DOMAIN ckptLog : ckptLog[k].last = start_from_batch + k - 1
    /\ pc \in (Active \cup {"DONE"}) \ {"LOADING", "VALIDATING", "RESUMING"} =>
          Len(ckptLog) = batch_num - start_from_batch
    /\ pc = "ABORTED" /\ ret = "raised_checkpoint" =>
          /\ Len(ckptLog) = batch_num - start_from_batch + 1
          /\ ~ckptLog[Len(ckptLog)].ok
    /\ \A k \in DOMAIN ckptLog :
          ckptLog[k].ok \/ (k = Len(ckptLog) /\ pc = "ABORTED")
    /\ CkptByThisRun =>
          /\ checkpoint.exists
          /\ \E k \in DOMAIN ckptLog :
                /\ ckptLog[k].ok
                /\ \A j \in DOMAIN ckptLog : ckptLog[j].ok => j <= k
                /\ checkpoint.last_completed_batch = ckptLog[k].last

C9_Witness ==
    /\ pc = "BATCH_LOOP" /\ Len(ckptLog) = 2
    /\ ckptLog[1].last = 0 /\ ckptLog[2].last = 1
    /\ checkpoint.last_completed_batch = 1

(* C10: when loading fails or a required column is missing the driver     *)
(* returns {error: ...} at once: FAILED is entered only from LOADING or   *)
(* VALIDATING, a missing column always leads there, and on the way no     *)
(* batch is run, no call is made and no file is written.                  *)
C10_FatalNoOutput ==
    [][ /\ (pc' = "FAILED" /\ pc # "FAILED") =>
              /\ pc \in {"LOADING", "VALIDATING"}
              /\ ret' = "error"
        /\ (pc = "VALIDATING" /\ missing_columns) =>
              pc' \in {"FAILED", "INTERRUPTED"}
        /\ pc \in {"LOADING", "VALIDATING"} =>
              /\ UNCHANGED <<disk, tasks, batch_results, all_results,
                             completed_count, failed_items, submitted, ckptLog>>
              /\ tasks = <<>> /\ all_results = <<>> /\ ckptLog = <<>>
              /\ \A i \in 0 .. R - 1 : submitted[i] = 0
      ]_vars

C10_Witness ==
    /\ pc = "FAILED" /\ missing_columns /\ ret = "error"
    /\ run = 2 /\ checkpoint.exists

(* ======================= the claims, C11 .. C20 ====================== *)
Range(seq) == {seq[k] : k \in DOMAIN seq}

(* the per-item file paths a step writes *)
NewItemWrites ==
    IF Len(itemLog') > Len(itemLog)
    THEN {itemLog'[k] : k \in (Len(itemLog) + 1) .. Len(itemLog')}
    ELSE {}

(* C11, as stated: a per-item file, once written, is never written      *)
(* again, within a run and across an interruption followed by a resume  *)
(* (no persistence failure involved).                                    *)
C11_Original == faults = 0 => rewritten = {}

(* C11, amended: within one run no per-item path is written twice, and  *)
(* a step that writes over an existing per-item file belongs to a       *)
(* resumed run reprocessing its first batch, the one after the          *)
(* checkpointed batch; files of checkpointed batches are never written  *)
(* again.                                                                *)
C11_WrittenOncePerRun ==
    [][\A p \in NewItemWrites :
          /\ p \notin Range(itemLog)
          /\ p \in itemFiles =>
                /\ run > 1
                /\ p[1] = start_from_batch
                /\ p[1] > checkpoint.last_completed_batch]_vars

(* a resumed run has overwritten a per-item file of the batch it is     *)
(* processing, a batch the earlier run was interrupted in before its    *)
(* results file was written                                              *)
C11_Witness ==
    /\ faults = 0
    /\ run = 2
    /\ pc = "BATCH_RUN"
    /\ \E p \in rewritten :
          /\ p \in Range(itemLog)
          /\ p[1] = batch_num
          /\ p[1] \notin DOMAIN batchFiles

(* C12: batches run one after the other in increasing batch id: the     *)
(* futures of a batch are replaced only when every one of them has      *)
(* finished, every invocation belongs to the batch of the loop          *)
(* variable, and the loop variable moves by one, with no future left.   *)
C12_Sequential ==
    [][/\ (DOMAIN tasks' # DOMAIN tasks /\ pc' # "INTERRUPTED") =>
             \A i \in DOMAIN tasks : tasks[i].st = "done"
       /\ \A i \in DOMAIN tasks' :
             /\ i \in BatchRows(batch_num', B, R)
             /\ pc' = "BATCH_RUN"
       /\ (batch_num' # batch_num /\ run' = run /\ pc' # "INTERRUPTED") =>
             /\ batch_num' = batch_num + 1
             /\ tasks = <<>> /\ tasks' = <<>>]_vars

(* the second batch runs after a first batch of two rows was drained *)
C12_Witness ==
    /\ run = 1 /\ B = 2 /\ max_workers = 2
    /\ pc = "BATCH_RUN" /\ batch_num = 1
    /\ \E i \in DOMAIN tasks : tasks[i].st = "call"
    /\ submitted[0] = 1 /\ submitted[1] = 1

(* C13: a resume without a checkpoint file ends without a run: nothing  *)
(* is started and nothing is written; with a checkpoint file the new    *)
(* run starts at last_completed_batch + 1, and every batch it processes *)
(* has an id of at least that, the first one being exactly that id.     *)
C13_ResumeEntry ==
    [][/\ (run' = run + 1 /\ ~checkpoint.exists) =>
             /\ pc' = "NO_CHECKPOINT"
             /\ tasks' = <<>>
             /\ UNCHANGED disk
       /\ (run' = run + 1 /\ checkpoint.exists) =>
             /\ pc' = "LOADING"
             /\ start_from_batch' = checkpoint.last_completed_batch + 1
             /\ UNCHANGED disk
       /\ pc = "NO_CHECKPOINT" => UNCHANGED <<tasks, disk>>
       /\ (run' > 1 /\ pc' = "BATCH_RUN") =>
             /\ batch_num' >= start_from_batch'
             /\ ckptLog' = <<>> => batch_num' = start_from_batch'
       /\ (run' = run /\ pc' # "INTERRUPTED") =>
             start_from_batch' = start_from_batch]_vars

(* a resumed run processes the batch after the checkpointed one *)
C13_Witness ==
    /\ run = 2
    /\ pc = "BATCH_RUN"
    /\ ckptLog = <<>>
    /\ checkpoint.exists
    /\ batch_num = checkpoint.last_completed_batch + 1
    /\ batch_num >= 1
    /\ \E i \in DOMAIN tasks : tasks[i].st = "done"

(* the places <<r, j>> where keyword k stands in a non-error result *)
PlacesOf(k) ==
    UNION {{<<r, j>> : j \in {j \in DOMAIN s_results[r].keywords :
                                 s_results[r].keywords[j] = k}} :
             r \in {r \in DOMAIN s_results : ~s_results[r].error}}
Earlier(p, q) == p[1] < q[1] \/ (p[1] = q[1] /\ p[2] < q[2])
FirstOf(places) == CHOOSE p \in places : \A q \in places \ {p} : Earlier(p, q)

(* C14: the returned top_keywords lists, each with its number of        *)
(* occurrences in the supporting_keywords of the non-error results, the *)
(* 20 best keywords (all of them when there are fewer), a more frequent *)
(* keyword before a less frequent one and, of two equally frequent      *)
(* ones, the one met first before the other.                             *)
C14_TopKeywords ==
    s_pc = "RETURNED" =>
        LET places == [k \in 1 .. (TopN + 1) |-> PlacesOf(k)]
            seen == {k \in 1 .. (TopN + 1) : places[k] # {}}
            occurrences == [k \in seen |-> Cardinality(places[k])]
            first == [k \in seen |-> FirstOf(places[k])]
            RanksAbove(a, b) ==
                \/ occurrences[a] > occurrences[b]
                \/ occurrences[a] = occurrences[b] /\ Earlier(first[a], first[b])
        IN  /\ Len(s_top) = Min(TopN, Cardinality(seen))
            /\ \A j \in DOMAIN s_top :
                  /\ s_top[j].k \in seen
                  /\ s_top[j].n = occurrences[s_top[j].k]
                  /\ \A i \in DOMAIN s_top :
                        i < j => RanksAbove(s_top[i].k, s_top[j].k)
                  /\ \A k \in seen \ Keys(s_top) :
                        RanksAbove(s_top[j].k, k)

(* more than 20 keywords, the one counted twice ranked first, the ties  *)
(* after it in the order met, the last of them cut off, and an error    *)
(* result whose keywords were not counted                               *)
C14_Witness ==
    /\ s_pc = "RETURNED"
    /\ Len(s_results) = 2
    /\ Len(s_top) = TopN
    /\ s_results[1] = [error |-> TRUE, keywords |-> UpTo(TopN + 1)]
    /\ s_results[2].keywords = Append(UpTo(TopN + 1), TopN + 1)
    /\ s_top[1] = [k |-> TopN + 1, n |-> 2]
    /\ s_top[2] = [k |-> 1, n |-> 1]
    /\ s_top[3] = [k |-> 2, n |-> 1]
    /\ TopN \notin Keys(s_top)

(* C15: with max_retries >= 1 the call, once it has returned, has       *)
(* returned a non-null value, whatever the API answered.                 *)
C15_NeverNull ==
    (c_mr >= 1 /\ c_st.result # "pending") => c_st.result # "null"

(* no attempt up to attempt k (counted from 1) parsed *)
NoneParsedUpTo(k) == \A j \in 1 .. k : c_in[j] \notin Parsed

(* C16: when every attempt failed, the call returns an error-tagged     *)
(* result that carries the response text (parse failure) or the         *)
(* exception message (transport failure) of the last attempt; after a   *)
(* failure of an earlier attempt nothing is returned and the loop is at *)
(* the next attempt.                                                     *)
C16_ErrorTagged ==
    /\ (c_mr >= 1 /\ c_st.calls = c_mr /\ NoneParsedUpTo(c_mr)) =>
          /\ c_st.result = IF c_in[c_mr] = "bad" THEN "err_parse"
                                                 ELSE "err_transport"
          /\ c_st.carries = c_mr
    /\ \A k \in 1 .. (c_mr - 1) :
          (c_st.calls = k /\ NoneParsedUpTo(k)) =>
             /\ c_st.result = "pending"
             /\ c_st.attempt = k
             /\ c_st.carries = 0

(* a parse failure, a transport failure and a final parse failure: the  *)
(* fallback carries the text of the third attempt                        *)
C16_Witness ==
    /\ c_mr = 3
    /\ c_in = <<"bad", "raise", "bad">>
    /\ c_st = [attempt |-> 2, calls |-> 3, result |-> "err_parse", carries |-> 3]

(* C17, as stated: after every failed attempt a with attempts remaining *)
(* the call sleeps 2^a, after a transport error and after a parse       *)
(* failure alike, and it does not sleep otherwise.                       *)
C17_Original ==
    \A k \in DOMAIN c_sleeps :
        c_sleeps[k] = IF c_in[k] \notin Parsed /\ k < c_mr
                      THEN 2 ^ (k - 1) ELSE 0

(* C17, amended: the call sleeps 2^a after attempt a exactly when that  *)
(* attempt ended in a transport error and attempts remain; after a      *)
(* parse failure it retries at once, and it never sleeps after the      *)
(* final attempt.                                                        *)
C17_BackoffOnTransportError ==
    /\ Len(c_sleeps) = c_st.calls
    /\ \A k \in DOMAIN c_sleeps :
          c_sleeps[k] = IF c_in[k] = "raise" /\ k < c_mr
                        THEN 2 ^ (k - 1) ELSE 0

(* no sleep after a parse failure, 2^1 after a transport error on the   *)
(* second attempt, none after the final attempt                          *)
C17_Witness ==
    /\ c_mr = 3
    /\ c_in = <<"bad", "raise", "raise">>
    /\ c_st.result = "err_transport"
    /\ c_sleeps = <<0, 2, 0>>

(* the rows of the current batch whose processing raised *)
RaisedRows ==
    {i \in DOMAIN tasks : tasks[i].st = "done" /\ tasks[i].c.result = "nonmap"}

(* C18: an exception inside process_single_item stays there: the row    *)
(* has exactly one failure record and no result, no failure record      *)
(* stands twice in the list, and a batch loop that has ended has        *)
(* submitted every row of every batch from the start batch on, whatever *)
(* rows raised and also when a batch gave no result.                    *)
C18_ExceptionContained ==
    /\ \A i \in RaisedRows :
          /\ Cardinality({k \in DOMAIN failed_items :
                 failed_items[k] = [batch_id |-> batch_num, index |-> i]}) = 1
          /\ \A k \in DOMAIN batch_results : batch_results[k].index # i
    /\ \A k \in DOMAIN failed_items : \A j \in DOMAIN failed_items :
          failed_items[k] = failed_items[j] => k = j
    /\ pc \in AfterLoop =>
          \A i \in 0 .. (R - 1) :
              submitted[i] = IF i >= start_from_batch * B THEN 1 ELSE 0

(* the only row of batch 0 raised, the batch gave no result, and batch  *)
(* 1 was processed and gave one                                          *)
C18_Witness ==
    /\ pc = "DONE" /\ run = 1 /\ R = 2 /\ B = 1
    /\ failed_items = <<[batch_id |-> 0, index |-> 0]>>
    /\ Len(all_results) = 1
    /\ all_results[1].index = 1
    /\ ckptLog = <<[last |-> 0, ok |-> TRUE], [last |-> 1, ok |-> TRUE]>>

(* C19: when every future of a batch is done, completed_count exceeds   *)
(* the results of the earlier batches by the number of rows that        *)
(* returned a result and failed_items holds as many records of the      *)
(* batch as rows raised; after a checkpoint write the checkpoint's      *)
(* total_completed equals completed_count.                              *)
C19_NoLostUpdate ==
    /\ (pc = "BATCH_RUN" /\ \A i \in DOMAIN tasks : tasks[i].st = "done") =>
          /\ completed_count = Len(all_results)
                + Cardinality({i \in DOMAIN tasks : tasks[i].c.result
                                 \in {"obj", "err_parse", "err_transport"}})
          /\ Cardinality({k \in DOMAIN failed_items :
                             failed_items[k].batch_id = batch_num})
                = Cardinality(RaisedRows)
    /\ (pc \in {"BATCH_LOOP"} \cup AfterLoop /\ ckptLog # <<>>) =>
          /\ checkpoint.total_completed = completed_count
          /\ completed_count = Len(all_results)

(* two workers finished the two rows of a batch, the second row first,  *)
(* and the checkpoint counts both                                        *)
C19_Witness ==
    /\ pc = "BATCH_LOOP" /\ run = 1 /\ B = 2 /\ max_workers = 2
    /\ Len(all_results) = 2
    /\ all_results[1].index = 1 /\ all_results[2].index = 0
    /\ completed_count = 2
    /\ checkpoint.total_completed = 2

(* the text holds a fenced block tagged json: an opening fence and a    *)
(* fence after it                                                        *)
HasFencedBlock(t) ==
    \E i \in DOMAIN t : \E j \in DOMAIN t :
        i < j /\ t[i] = "F" /\ t[j] \in {"T", "F"}

(* the part of the text the three rules name, in their order *)
ChosenPart(t) ==
    IF HasFencedBlock(t)
    THEN LET i == CHOOSE i \in DOMAIN t :
                     t[i] = "F" /\ \A k \in 1 .. (i - 1) : t[k] # "F"
             j == CHOOSE j \in (i + 1) .. Len(t) :
                     /\ t[j] \in {"T", "F"}
                     /\ \A k \in (i + 1) .. (j - 1) : t[k] \notin {"T", "F"}
         IN  SubSeq(t, i + 1, j - 1)
    ELSE IF \E i \in DOMAIN t : t[i] = "{" /\ \E j \in DOMAIN t : t[j] = "}"
         THEN LET i == CHOOSE i \in DOMAIN t :
                          t[i] = "{" /\ \A k \in 1 .. (i - 1) : t[k] # "{"
                  j == CHOOSE j \in DOMAIN t :
                          t[j] = "}" /\ \A k \in (j + 1) .. Len(t) : t[k] # "}"
              IN  SubSeq(t, i, j)
         ELSE t

(* C20: what is parsed is the content of the fenced json block when the *)
(* text holds one, otherwise the part from the first { to the last },   *)
(* otherwise the whole text; so text with a json fence around an object *)
(* and text with noise around one object parse to that object. Stated   *)
(* for text that holds both braces and in which an opening fence, if    *)
(* there is one, comes first.                                            *)
C20_ExtractionOrder ==
    (/\ x_pc = "PARSED"
     /\ \A j \in 2 .. Len(x_text) : x_text[j] # "F"
     /\ \E j \in DOMAIN x_text : x_text[j] = "{"
     /\ \E j \in DOMAIN x_text : x_text[j] = "}") =>
        x_value = JsonLoads(ChosenPart(x_text))

(* ======================= the claims, C21 .. C22 ====================== *)
(* the rows of the batches the checkpoint on disk counts as completed *)
CheckpointedRows ==
    IF checkpoint.exists
    THEN UNION {BatchRows(b, B, R) : b \in 0 .. checkpoint.last_completed_batch}
    ELSE {}

(* the rows of the current batch that are queued or in flight *)
UnfinishedRows == {i \in DOMAIN tasks : tasks[i].st # "done"}

(* what holds of a step that writes the checkpoint, apart from files *)
CheckpointAfterWorkers ==
    /\ pc = "CHECKPOINT"
    /\ tasks = <<>>
    /\ checkpoint'.last_completed_batch = batch_num
    /\ BatchRows(batch_num, B, R) \subseteq finishedRows

(* C21, as stated: a step that writes the checkpoint naming batch b     *)
(* comes after every worker of b has finished and, when b has results,  *)
(* after the results file of b has been written.                         *)
C21_Original ==
    [][checkpoint' # checkpoint =>
          /\ CheckpointAfterWorkers
          /\ BatchHasResult(batch_num) => batch_num \in DOMAIN batchFiles]_vars

(* C21, amended: a step that writes the checkpoint naming batch b comes *)
(* after every worker of b has finished and, when b has results, after  *)
(* the results file of b was written or its write failed; without a     *)
(* write failure the per-item file of every result of b is on disk. The *)
(* checkpoint on disk never names a batch with a row queued or in       *)
(* flight, and every row of the batches it names has finished.          *)
C21_CheckpointAfterBatch ==
    /\ [](CheckpointedRows \cap UnfinishedRows = {})
    /\ [](CheckpointedRows \subseteq finishedRows)
    /\ [][checkpoint' # checkpoint =>
             /\ CheckpointAfterWorkers
             /\ BatchHasResult(batch_num) =>
                   \/ batch_num \in DOMAIN batchFiles
                   \/ batch_num \in batchWriteFailed
             /\ faults = 0 =>
                   \A k \in DOMAIN all_results :
                       all_results[k].index \in BatchRows(batch_num, B, R) =>
                          <<batch_num, all_results[k].index>> \in itemFiles]_vars

(* the checkpoint names batch 0, whose two rows finished and whose      *)
(* results file is on disk, while a row of batch 1 is in flight          *)
C21_Witness ==
    /\ run = 1 /\ B = 2 /\ R = 3
    /\ pc = "BATCH_RUN" /\ batch_num = 1
    /\ checkpoint.exists /\ checkpoint.last_completed_batch = 0
    /\ 0 \in DOMAIN batchFiles
    /\ Len(batchFiles[0]) = 2
    /\ {<<0, 0>>, <<0, 1>>} \subseteq itemFiles
    /\ tasks[2].st = "call"

(* how a run ends that is cut short: the load or the validation failed, *)
(* the process was interrupted, or the unguarded checkpoint or final    *)
(* write raised                                                          *)
CutShort == pc \in {"FAILED", "INTERRUPTED", "ABORTED"}

====
